---- MODULE Spec2Model ----
(***************************************************************************)
(* Model of the presence and status-tracking core of the chat server       *)
(* (src/server.js): the identity <-> session registry, the group           *)
(* directory, the in-memory acknowledgment tracker and the durable message *)
(* collection (src/db.js), with every socket event handler as one action   *)
(* and every `await` on the message collection as a suspension point.      *)
(***************************************************************************)
EXTENDS Integers, FiniteSets, Sequences, Bags, TLC

(* ---------------------------- bounds ---------------------------------- *)
\* connections the transport opens over a run (socket ids are never reused)
NumSockets == 2
\* message ids minted over a run
MaxMsgs == 2
\* messages sent in a run that goes on to acknowledge them
MaxAckedMsgs == 1
\* group identifiers minted over a run
MaxGroupIds == 2
\* async handlers suspended on the message collection at the same time
MaxPending == 2
\* acknowledgment events (message_delivered, message_read) dispatched over a run
MaxAcks == 4
\* acknowledgments sent where membership changes or failures interleave with them
MaxRacingAcks == 2

Sockets == 1..NumSockets
NoSock == 0
Names == {"alice", "bob"}
NoName == ""
GroupNames == {"team"}
NoGroup == ""
MsgIds == 1..MaxMsgs
NoMsg == 0
\* a well-formed message id that no message carries
UnknownMsg == MaxMsgs + 1
Gids == 1..MaxGroupIds
NoGid == 0

VARIABLES
  sockState,      \* transport: "none" (not yet connected), "live", "closed"
  socketUsername, \* socket.username property of each connection
  userSocketMap,  \* username -> socketId
  socketUserMap,  \* socketId -> username
  rooms,          \* roomName -> Set of socketIds
  userRooms,      \* socketId -> Set of roomNames
  groupIds,       \* groupName -> groupId
  groupMembers,   \* groupId -> Set of usernames
  messageStatus,  \* messageId -> tracker entry
  Message,        \* the durable collection: messageId -> document
  ioById,         \* socket.io rooms keyed by groupId: set of <<socket, groupId>>
  ioByName,       \* socket.io rooms keyed by roomName: set of <<socket, roomName>>
  nextSock,       \* next connection id the transport hands out
  nextGid,        \* next group identifier to mint
  nextMsg,        \* next message identifier to mint
  acks,           \* acknowledgment events dispatched so far
  handlers,       \* bag of the async handlers suspended on an await
  emitted,        \* events pushed to sessions by the last step
  pushed,         \* message ids ever pushed in a privateMessage/groupMessage/messageSent payload
  crashed         \* an exception escaped a handler and ended the process

registry == <<userSocketMap, socketUserMap, socketUsername>>
directory == <<rooms, userRooms, groupIds, groupMembers, ioById, ioByName>>
store == <<messageStatus, Message>>
counters == <<nextSock, nextGid, nextMsg, acks>>
vars == <<sockState, socketUsername, userSocketMap, socketUserMap, rooms, userRooms,
          groupIds, groupMembers, messageStatus, Message, ioById, ioByName,
          nextSock, nextGid, nextMsg, acks, handlers, emitted, pushed, crashed>>

(* ------------------------ Map helpers (JS Map) ------------------------- *)
Has(m, k) == k \in DOMAIN m
Put(m, k, v) == [x \in DOMAIN m \cup {k} |-> IF x = k THEN v ELSE m[x]]
\* a faulty variant of Map.prototype.delete that deletes nothing
KeepAll(m, k) == m

Del(m, k) == [x \in DOMAIN m \ {k} |-> m[x]]
EmptyMap == [x \in {} |-> 0]

\* ordering of the status enum of src/db.js
Rank(st) == CASE st = "sent" -> 1 [] st = "delivered" -> 2 [] st = "read" -> 3 [] OTHER -> 0

(* ------------------------------ events --------------------------------- *)
\* one outbound event: name, target session, message id, acknowledgment count,
\* total-recipient-count and status carried in the payload (0 / "" when absent)
Ev(ev, to, msg, n, tot, st) ==
  [ev |-> ev, to |-> to, msg |-> msg, count |-> n, total |-> tot, status |-> st,
   message |-> ""]

\* socket.emit("error", { message })
ErrorEv(s, message) ==
  [ev |-> "error", to |-> s, msg |-> NoMsg, count |-> 0, total |-> 0, status |-> "",
   message |-> message]

\* faulty variants of the transport: one that still delivers to closed
\* sessions, one that delivers nothing
DeliverAll(evs) == evs
DeliverNone(evs) == {}

\* the transport delivers only to sessions that are still open
Deliverable(evs) == {e \in evs : e.to \in Sockets /\ sockState[e.to] = "live"}

\* socket.to(room): every socket joined to the room except the emitting one
OthersById(gid, s) == {t \in Sockets : <<t, gid>> \in ioById /\ t # s}
AllById(gid) == {t \in Sockets : <<t, gid>> \in ioById}
OthersByName(g, s) == {t \in Sockets : <<t, g>> \in ioByName /\ t # s}

Live(s) == s \in Sockets /\ sockState[s] = "live"

(* ------------------------- handler records ----------------------------- *)
\* findOne's null
NoDoc == [chatType |-> "none", from |-> NoName, to |-> NoName, groupId |-> NoGid,
          status |-> "", deliveredTo |-> <<>>, readBy |-> <<>>,
          deliveredAt |-> FALSE, readAt |-> FALSE]

\* the locals of a handler invocation that a later step of it reads, before any
\* of them is set: sock (the emitting socket of a send), user (socket.username
\* on entry), msgId, from (the payload's `from`), to, target (receiverSocketId /
\* senderSocketId), gid, total (totalMembers), chatType (messageDoc.chatType)
Locals == [kind |-> "", pc |-> "", sock |-> NoSock, user |-> NoName,
           msgId |-> NoMsg, from |-> NoName, to |-> NoName, target |-> NoSock,
           gid |-> NoGid, total |-> 0, chatType |-> ""]

Pending == BagToSet(handlers)
CanSuspend == BagCardinality(handlers) < MaxPending

Init ==
  /\ sockState = [s \in Sockets |-> "none"]
  /\ socketUsername = [s \in Sockets |-> NoName]
  /\ userSocketMap = EmptyMap
  /\ socketUserMap = EmptyMap
  /\ rooms = EmptyMap
  /\ userRooms = EmptyMap
  /\ groupIds = EmptyMap
  /\ groupMembers = EmptyMap
  /\ messageStatus = EmptyMap
  /\ Message = EmptyMap
  /\ ioById = {}
  /\ ioByName = {}
  /\ nextSock = 1
  /\ nextGid = 1
  /\ nextMsg = 1
  /\ acks = 0
  /\ handlers = EmptyBag
  /\ emitted = {}
  /\ pushed = {}
  /\ crashed = FALSE

(* --------------------------- connection -------------------------------- *)
\* io.on("connection"): the transport opens a session with a fresh id
Connect ==
  /\ ~crashed
  /\ nextSock <= NumSockets
  /\ sockState' = [sockState EXCEPT ![nextSock] = "live"]
  /\ nextSock' = nextSock + 1
  /\ emitted' = {}
  /\ UNCHANGED <<registry, directory, store, nextGid, nextMsg, acks, handlers, pushed, crashed>>

(* ---------------------------- register --------------------------------- *)
\* a faulty variant of the line-57 check: no username is ever taken
UsernameNeverTaken(username) == FALSE

\* line 57: the check that the username is already taken
UsernameTaken(username) == Has(userSocketMap, username)

Register(s, username) ==
  /\ ~crashed
  /\ Live(s)
  /\ IF username = NoName
       THEN /\ emitted' = Deliverable({ErrorEv(s, "Username is required")})
            /\ UNCHANGED registry
       ELSE IF UsernameTaken(username)
         THEN /\ emitted' = Deliverable({ErrorEv(s, "Username already taken")})
              /\ UNCHANGED registry
         ELSE /\ userSocketMap' = Put(userSocketMap, username, s)
              /\ socketUserMap' = Put(socketUserMap, s, username)
              /\ socketUsername' = [socketUsername EXCEPT ![s] = username]
              /\ emitted' = Deliverable({Ev("registered", s, NoMsg, 0, 0, "")}
                                \cup {Ev("userStatus", t, NoMsg, 0, 0, "online") : t \in Sockets})
  /\ UNCHANGED <<sockState, directory, store, counters, handlers, pushed, crashed>>

(* ---------------------------- joinGroup -------------------------------- *)
\* lines 234-237 / 931-943: the member names shown for a room
MemberNames(rm, g) == {socketUserMap[t] : t \in {x \in rm[g] : Has(socketUserMap, x)}}

\* broadcastGroupList (lines 931-945): the names of the listed groups
GroupList == DOMAIN rooms

\* a faulty variant of the existence test that finds no group
GroupNeverExists(groupName) == FALSE

\* rooms.has(roomName)
GroupExists(groupName) == Has(rooms, groupName)

JoinGroup(s, groupName) ==
  /\ ~crashed
  /\ Live(s)
  /\ LET username == socketUsername[s] IN
     IF username = NoName \/ groupName = NoGroup
       THEN /\ emitted' = Deliverable({ErrorEv(s, IF username = NoName
                                                    THEN "Please register first"
                                                    ELSE "Group name is required")})
            /\ UNCHANGED <<directory, nextGid>>
       ELSE
         LET fresh == ~GroupExists(groupName)
             groupId == IF fresh THEN nextGid ELSE
                          IF Has(groupIds, groupName) THEN groupIds[groupName] ELSE NoGid
             rooms1 == IF fresh THEN Put(rooms, groupName, {}) ELSE rooms
             gm1 == IF fresh THEN Put(groupMembers, groupId, {}) ELSE groupMembers
             ur1 == IF Has(userRooms, s) THEN userRooms ELSE Put(userRooms, s, {})
         IN
         /\ fresh => nextGid <= MaxGroupIds
         /\ nextGid' = IF fresh THEN nextGid + 1 ELSE nextGid
         /\ groupIds' = IF fresh THEN Put(groupIds, groupName, groupId) ELSE groupIds
         /\ rooms' = [rooms1 EXCEPT ![groupName] = @ \cup {s}]
         /\ userRooms' = [ur1 EXCEPT ![s] = @ \cup {groupName}]
         /\ groupMembers' = IF groupId # NoGid /\ Has(gm1, groupId)
                              THEN [gm1 EXCEPT ![groupId] = @ \cup {username}]
                              ELSE gm1
         /\ ioById' = ioById \cup {<<s, groupId>>}
         /\ ioByName' = ioByName \cup {<<s, groupName>>}
         /\ emitted' = Deliverable({Ev("groupJoined", s, NoMsg, 0, 0, "")}
                          \cup {Ev("userJoinedGroup", t, NoMsg, 0, 0, "") : t \in OthersById(groupId, s)})
  /\ UNCHANGED <<sockState, registry, store, nextSock, nextMsg, acks, handlers, pushed, crashed>>

(* ---------------------------- leaveGroup ------------------------------- *)
\* Line 283 reads `groupId` inside the block whose own `const groupId` is
\* declared on line 288: the read is in the temporal dead zone of that
\* binding and throws ReferenceError before the rest of the block runs.
GroupIdReadBeforeInit == TRUE

LeaveGroup(s, groupName) ==
  /\ ~crashed
  /\ Live(s)
  /\ LET username == socketUsername[s] IN
     IF username = NoName \/ groupName = NoGroup \/ ~Has(rooms, groupName)
       THEN /\ emitted' = {}
            /\ UNCHANGED <<directory, crashed, handlers>>
       ELSE
         LET rooms1 == [rooms EXCEPT ![groupName] = @ \ {s}]
             ur1 == IF Has(userRooms, s)
                      THEN [userRooms EXCEPT ![s] = @ \ {groupName}] ELSE userRooms
         IN
         IF GroupIdReadBeforeInit
           THEN \* lines 275-280 have run; the exception leaves the handler at line 283
                \* and, uncaught in an event listener, ends the process
                /\ rooms' = rooms1
                /\ userRooms' = ur1
                /\ crashed' = TRUE
                /\ handlers' = EmptyBag
                /\ emitted' = {}
                /\ UNCHANGED <<groupIds, groupMembers, ioById, ioByName>>
           ELSE \* lines 283-317, as written
                LET groupId == IF Has(groupIds, groupName) THEN groupIds[groupName] ELSE NoGid
                    gm1 == IF groupId # NoGid /\ Has(groupMembers, groupId)
                             THEN [groupMembers EXCEPT ![groupId] = @ \ {username}]
                             ELSE groupMembers
                    empty == rooms1[groupName] = {}
                IN
                /\ userRooms' = ur1
                /\ ioById' = ioById \ {<<s, groupId>>}
                /\ ioByName' = ioByName \ {<<s, groupName>>}
                /\ rooms' = IF empty THEN Del(rooms1, groupName) ELSE rooms1
                /\ groupIds' = IF empty /\ groupId # NoGid THEN Del(groupIds, groupName) ELSE groupIds
                /\ groupMembers' = IF empty /\ groupId # NoGid THEN Del(gm1, groupId) ELSE gm1
                /\ emitted' = Deliverable({Ev("groupLeft", s, NoMsg, 0, 0, "")}
                                 \cup (IF empty THEN {} ELSE
                                        {Ev("userLeftGroup", t, NoMsg, 0, 0, "") : t \in OthersById(groupId, s)}))
                /\ UNCHANGED <<crashed, handlers>>
  /\ UNCHANGED <<sockState, registry, store, counters, pushed>>

(* -------------------------- addUserToGroup ----------------------------- *)
AddUserToGroup(s, groupName, targetUsername) ==
  /\ ~crashed
  /\ Live(s)
  /\ LET requester == socketUsername[s]
         groupId == IF Has(groupIds, groupName) THEN groupIds[groupName] ELSE NoGid
         targetSocketId == IF Has(userSocketMap, targetUsername)
                             THEN userSocketMap[targetUsername] ELSE NoSock
         \* the first check that fails (lines 330-361), "" when none does
         refusal ==
           IF requester = NoName \/ groupName = NoGroup \/ targetUsername = NoName
             THEN "Missing required fields"
           ELSE IF ~Has(rooms, groupName) \/ groupId = NoGid THEN "Group does not exist"
           ELSE IF s \notin rooms[groupName] THEN "You are not a member of this group"
           ELSE IF targetSocketId = NoSock THEN "User is not online"
           ELSE IF targetSocketId \in rooms[groupName] THEN "User is already in the group"
           ELSE ""
     IN
     IF refusal # ""
       THEN /\ emitted' = Deliverable({ErrorEv(s, refusal)})
            /\ UNCHANGED directory
       ELSE
         LET ur1 == IF Has(userRooms, targetSocketId) THEN userRooms
                      ELSE Put(userRooms, targetSocketId, {})
             \* io.sockets.sockets.get(targetSocketId): only an open connection
             targetSocket == Live(targetSocketId)
         IN
         /\ rooms' = [rooms EXCEPT ![groupName] = @ \cup {targetSocketId}]
         /\ userRooms' = [ur1 EXCEPT ![targetSocketId] = @ \cup {groupName}]
         /\ groupMembers' = [groupMembers EXCEPT ![groupId] = @ \cup {targetUsername}]
         /\ ioById' = IF targetSocket THEN ioById \cup {<<targetSocketId, groupId>>} ELSE ioById
         /\ ioByName' = IF targetSocket THEN ioByName \cup {<<targetSocketId, groupName>>} ELSE ioByName
         /\ emitted' = {Ev("userAddedToGroup", t, NoMsg, 0, 0, "") :
                          t \in {x \in Sockets : <<x, groupId>> \in ioById' /\ sockState[x] = "live"}}
         /\ UNCHANGED groupIds
  /\ UNCHANGED <<sockState, registry, store, counters, handlers, pushed, crashed>>

(* ------------------------ removeUserFromGroup -------------------------- *)
RemoveUserFromGroup(s, groupName, targetUsername) ==
  /\ ~crashed
  /\ Live(s)
  /\ LET requester == socketUsername[s]
         groupId == IF Has(groupIds, groupName) THEN groupIds[groupName] ELSE NoGid
         targetSocketId == IF Has(userSocketMap, targetUsername)
                             THEN userSocketMap[targetUsername] ELSE NoSock
         \* the first check that fails (lines 406-431), "" when none does
         refusal ==
           IF requester = NoName \/ groupName = NoGroup \/ targetUsername = NoName
             THEN "Missing required fields"
           ELSE IF ~Has(rooms, groupName) \/ groupId = NoGid THEN "Group does not exist"
           ELSE IF s \notin rooms[groupName] THEN "You are not a member of this group"
           ELSE IF targetSocketId = NoSock \/ targetSocketId \notin rooms[groupName]
             THEN "User is not in this group"
           ELSE ""
     IN
     IF refusal # ""
       THEN /\ emitted' = Deliverable({ErrorEv(s, refusal)})
            /\ UNCHANGED directory
       ELSE
         LET targetSocket == Live(targetSocketId) IN
         /\ rooms' = [rooms EXCEPT ![groupName] = @ \ {targetSocketId}]
         /\ userRooms' = IF Has(userRooms, targetSocketId)
                           THEN [userRooms EXCEPT ![targetSocketId] = @ \ {groupName}]
                           ELSE userRooms
         /\ groupMembers' = IF Has(groupMembers, groupId)
                              THEN [groupMembers EXCEPT ![groupId] = @ \ {targetUsername}]
                              ELSE groupMembers
         /\ ioById' = IF targetSocket THEN ioById \ {<<targetSocketId, groupId>>} ELSE ioById
         /\ ioByName' = IF targetSocket THEN ioByName \ {<<targetSocketId, groupName>>} ELSE ioByName
         /\ emitted' = {Ev("userRemovedFromGroup", t, NoMsg, 0, 0, "") :
                          t \in {x \in Sockets : <<x, groupId>> \in ioById' /\ sockState[x] = "live"}}
                       \cup (IF targetSocket
                               THEN {Ev("removedFromGroup", targetSocketId, NoMsg, 0, 0, "")} ELSE {})
         /\ UNCHANGED groupIds
  /\ UNCHANGED <<sockState, registry, store, counters, handlers, pushed, crashed>>

(* ---------------------------- disconnect ------------------------------- *)
Disconnect(s) ==
  /\ ~crashed
  /\ Live(s)
  /\ sockState' = [sockState EXCEPT ![s] = "closed"]
  \* the transport takes a closed socket out of every socket.io room
  /\ ioById' = {p \in ioById : p[1] # s}
  /\ ioByName' = {p \in ioByName : p[1] # s}
  /\ IF Has(socketUserMap, s)
       THEN
         LET username == socketUserMap[s]
             userGroups == IF Has(userRooms, s)
                             THEN {g \in userRooms[s] : Has(rooms, g)} ELSE {}
             gidOf(g) == IF Has(groupIds, g) THEN groupIds[g] ELSE NoGid
             emptied == {g \in userGroups : rooms[g] \ {s} = {}}
             sweptGids == {gidOf(g) : g \in userGroups} \ {NoGid}
             goneGids == {gidOf(g) : g \in emptied} \ {NoGid}
         IN
         /\ rooms' = [g \in DOMAIN rooms \ emptied |->
                        IF g \in userGroups THEN rooms[g] \ {s} ELSE rooms[g]]
         /\ groupIds' = [g \in DOMAIN groupIds \ {x \in emptied : gidOf(x) # NoGid} |-> groupIds[g]]
         /\ groupMembers' = [k \in DOMAIN groupMembers \ goneGids |->
                               IF k \in sweptGids THEN groupMembers[k] \ {username}
                               ELSE groupMembers[k]]
         /\ userRooms' = Del(userRooms, s)
         /\ userSocketMap' = Del(userSocketMap, username)
         /\ socketUserMap' = Del(socketUserMap, s)
         /\ emitted' = {Ev("userLeftGroup", t, NoMsg, 0, 0, "") :
                          t \in {x \in Sockets : \E g \in userGroups : x \in OthersByName(g, s)}}
                       \cup {Ev("userStatus", t, NoMsg, 0, 0, "offline") :
                               t \in {x \in Sockets : x # s /\ sockState[x] = "live"}}
       ELSE /\ emitted' = {}
            /\ UNCHANGED <<userSocketMap, socketUserMap, rooms, userRooms, groupIds, groupMembers>>
  /\ UNCHANGED <<socketUsername, store, counters, handlers, pushed, crashed>>

(* ------------------- the durable collection (src/db.js) ---------------- *)
\* Message.create of a private message (lines 130-137; defaults of the schema)
PrivateDoc(from, to) ==
  [chatType |-> "private", from |-> from, to |-> to, groupId |-> NoGid,
   status |-> "sent", deliveredTo |-> <<>>, readBy |-> <<>>,
   deliveredAt |-> FALSE, readAt |-> FALSE]

\* Message.create of a group message (lines 564-574)
GroupDoc(from, groupId) ==
  [chatType |-> "group", from |-> from, to |-> NoName, groupId |-> groupId,
   status |-> "sent", deliveredTo |-> <<>>, readBy |-> <<>>,
   deliveredAt |-> FALSE, readAt |-> FALSE]

\* Array.prototype.includes on a [String] field of a document
Includes(arr, x) == \E k \in 1..Len(arr) : arr[k] = x

\* a faulty variant of $addToSet: $push, which appends whatever the array holds
Push(arr, x) == Append(arr, x)

\* the $addToSet update operator on a [String] field
\* a faulty variant of $addToSet that writes the array back with the new
\* element alone, as a read-modify-write of a stale copy would
Overwrite(arr, x) == <<x>>

AddToSet(arr, x) == IF Includes(arr, x) THEN arr ELSE Append(arr, x)

\* Message.findOne({ messageId })
FindOne(id) == IF Has(Message, id) THEN Message[id] ELSE NoDoc

\* updateOne $set status "delivered", deliveredAt (lines 655-663)
DbDeliveredPrivate(id) ==
  IF Has(Message, id)
    THEN [Message EXCEPT ![id].status = "delivered", ![id].deliveredAt = TRUE]
    ELSE Message

\* updateOne $set status "delivered", $addToSet deliveredTo (lines 668-674)
DbDeliveredGroup(id, receiver) ==
  IF Has(Message, id)
    THEN [Message EXCEPT ![id].status = "delivered",
                         ![id].deliveredTo = AddToSet(@, receiver)]
    ELSE Message

\* updateOne $set status "read", readAt (lines 777-785 and 803-806)
DbSetRead(id) ==
  IF Has(Message, id)
    THEN [Message EXCEPT ![id].status = "read", ![id].readAt = TRUE]
    ELSE Message

\* updateOne $addToSet readBy (lines 790-795)
DbAddReadBy(id, reader) ==
  IF Has(Message, id)
    THEN [Message EXCEPT ![id].readBy = AddToSet(@, reader)]
    ELSE Message

(* --------------------- the in-memory tracker --------------------------- *)
\* messageStatus.set of a private message (lines 146-153)
PrivateInfo(from, to) ==
  [chatType |-> "private", from |-> from, to |-> to, groupId |-> NoGid,
   status |-> "sent", deliveredTo |-> {}, readBy |-> {}, totalMembers |-> 0,
   deliveredAt |-> FALSE, readAt |-> FALSE]

\* messageStatus.set of a group message (lines 583-593)
\* a faulty variant of the tracker entry that leaves the sender out of the total
GroupInfoWithoutSender(from, groupId, totalMembers) ==
  [chatType |-> "group", from |-> from, to |-> NoName, groupId |-> groupId,
   status |-> "sent", deliveredTo |-> {}, readBy |-> {}, totalMembers |-> totalMembers - 1,
   deliveredAt |-> FALSE, readAt |-> FALSE]

GroupInfo(from, groupId, totalMembers) ==
  [chatType |-> "group", from |-> from, to |-> NoName, groupId |-> groupId,
   status |-> "sent", deliveredTo |-> {}, readBy |-> {}, totalMembers |-> totalMembers,
   deliveredAt |-> FALSE, readAt |-> FALSE]

\* lines 683-696: the in-memory update of message_delivered
TrackDelivered(id, receiver) ==
  IF ~Has(messageStatus, id) THEN messageStatus
  ELSE IF messageStatus[id].chatType = "private"
    THEN [messageStatus EXCEPT ![id].status = "delivered", ![id].deliveredAt = TRUE]
    ELSE [messageStatus EXCEPT ![id].deliveredTo = @ \cup {receiver},
                               ![id].status = "delivered",
                               ![id].deliveredAt = TRUE]

\* lines 817-830: the in-memory update of message_read
TrackRead(id, reader) ==
  IF ~Has(messageStatus, id) THEN messageStatus
  ELSE IF messageStatus[id].chatType = "private"
    THEN [messageStatus EXCEPT ![id].status = "read", ![id].readAt = TRUE]
    ELSE LET readBy == messageStatus[id].readBy \cup {reader} IN
         IF Cardinality(readBy) = messageStatus[id].totalMembers
           THEN [messageStatus EXCEPT ![id].readBy = readBy,
                                      ![id].status = "read", ![id].readAt = TRUE]
           ELSE [messageStatus EXCEPT ![id].readBy = readBy]

(* -------------------------- handler plumbing --------------------------- *)
Suspend(h) == handlers' = handlers (+) SetToBag({h})
Resume(h0, h) == handlers' = (handlers (-) SetToBag({h0})) (+) SetToBag({h})
Finish(h0) == handlers' = handlers (-) SetToBag({h0})
At(h0, kind, pc) == BagIn(h0, handlers) /\ h0.kind = kind /\ h0.pc = pc

\* message ids carried by the payloads that hand a message to a session
PushedIds(evs) ==
  {e.msg : e \in {x \in evs : x.ev \in {"privateMessage", "groupMessage", "messageSent"}}}

(* --------------------------- privateMessage ---------------------------- *)
PrivateMessage(s, to, text) ==
  /\ ~crashed
  /\ Live(s)
  /\ LET from == socketUsername[s]
         receiverSocketId == IF Has(userSocketMap, to) THEN userSocketMap[to] ELSE NoSock
         refusal ==
           IF from = NoName THEN "Please register first"
           ELSE IF to = NoName \/ text = "" THEN "Recipient and message text are required"
           ELSE IF receiverSocketId = NoSock THEN "User is not online"
           ELSE ""
     IN
     IF refusal # ""
       THEN /\ emitted' = Deliverable({ErrorEv(s, refusal)})
            /\ UNCHANGED <<handlers, nextMsg>>
       ELSE /\ nextMsg <= MaxMsgs
            /\ CanSuspend
            /\ nextMsg' = nextMsg + 1
            /\ Suspend([Locals EXCEPT !.kind = "privateMessage", !.pc = "create", !.sock = s,
                                    !.user = from, !.to = to, !.target = receiverSocketId,
                                    !.msgId = nextMsg])
            /\ emitted' = {}
  /\ UNCHANGED <<sockState, registry, directory, store, nextSock, nextGid, acks, pushed, crashed>>

\* a faulty variant of the catch clause: it reports the failure and falls
\* through to the tracker entry and the confirmation to the sender
CreateFallsThrough(h0) ==
  /\ Finish(h0)
  /\ emitted' = Deliverable({ErrorEv(h0.sock, "Failed to save message"),
                             Ev("messageSent", h0.sock, h0.msgId, 0, 0, "sent")})
  /\ messageStatus' = Put(messageStatus, h0.msgId, PrivateInfo(h0.user, h0.to))
  /\ pushed' = pushed \cup PushedIds(emitted')
  /\ UNCHANGED Message

\* lines 139-143 / 576-580: the catch clause of Message.create returns
CreateFailed(h0) ==
  /\ Finish(h0)
  /\ emitted' = Deliverable({ErrorEv(h0.sock, "Failed to save message")})
  /\ UNCHANGED <<store, pushed>>

\* the continuation of `await Message.create` (lines 130-162)
PrivateMessageSaved(h, ok) ==
  /\ ~crashed
  /\ At(h, "privateMessage", "create")
  /\ IF ~ok
       THEN CreateFailed(h)
       ELSE /\ Message' = Put(Message, h.msgId, PrivateDoc(h.user, h.to))
            /\ messageStatus' = Put(messageStatus, h.msgId, PrivateInfo(h.user, h.to))
            /\ emitted' = Deliverable({Ev("privateMessage", h.target, h.msgId, 0, 0, "sent"),
                                       Ev("messageSent", h.sock, h.msgId, 0, 0, "sent")})
            /\ pushed' = pushed \cup PushedIds(emitted')
            /\ Finish(h)
  /\ UNCHANGED <<sockState, registry, directory, counters, crashed>>

(* ---------------------------- groupMessage ----------------------------- *)
GroupMessage(s, groupName, text) ==
  /\ ~crashed
  /\ Live(s)
  /\ LET from == socketUsername[s]
         refusal ==
           IF from = NoName THEN "Please register first"
           ELSE IF groupName = NoGroup \/ text = ""
             THEN "Group name and message text are required"
           ELSE IF ~Has(rooms, groupName) \/ s \notin rooms[groupName]
             THEN "You are not a member of group"
           ELSE ""
     IN
     IF refusal # ""
       THEN /\ emitted' = Deliverable({ErrorEv(s, refusal)})
            /\ UNCHANGED <<handlers, nextMsg>>
       ELSE /\ nextMsg <= MaxMsgs
            /\ CanSuspend
            /\ nextMsg' = nextMsg + 1
            /\ Suspend([Locals EXCEPT !.kind = "groupMessage", !.pc = "create", !.sock = s,
                                    !.user = from, !.msgId = nextMsg,
                                    !.gid = IF Has(groupIds, groupName)
                                              THEN groupIds[groupName] ELSE NoGid,
                                    !.total = Cardinality(rooms[groupName])])
            /\ emitted' = {}
  /\ UNCHANGED <<sockState, registry, directory, store, nextSock, nextGid, acks, pushed, crashed>>

\* the continuation of `await Message.create` (lines 564-596)
GroupMessageSaved(h, ok) ==
  /\ ~crashed
  /\ At(h, "groupMessage", "create")
  /\ IF ~ok
       THEN CreateFailed(h)
       ELSE /\ Message' = Put(Message, h.msgId, GroupDoc(h.user, h.gid))
            /\ messageStatus' = Put(messageStatus, h.msgId, GroupInfo(h.user, h.gid, h.total))
            /\ emitted' = Deliverable({Ev("groupMessage", t, h.msgId, 0, h.total, "sent") :
                                         t \in AllById(h.gid)})
            /\ pushed' = pushed \cup PushedIds(emitted')
            /\ Finish(h)
  /\ UNCHANGED <<sockState, registry, directory, counters, crashed>>

(* ------------------------- acknowledgments ------------------------------ *)
\* a faulty variant of the entitlement check: every identity passes
EntitledAlways(doc, actor, from) == TRUE

\* lines 636-649 / 758-771: is the acting identity the message's counterpart
Entitled(doc, actor, from) ==
  IF doc.chatType = "private"
    THEN doc.to = actor /\ doc.from = from
    ELSE IF doc.chatType = "group"
      THEN Has(groupMembers, doc.groupId) /\ actor \in groupMembers[doc.groupId]
      ELSE TRUE

\* a rejected promise outside any try block (lines 710, 843): the handler ends;
\* whether the runtime then ends the process depends on its unhandled-rejection mode
Unhandled(h0) ==
  /\ \/ crashed' = FALSE /\ Finish(h0)
     \/ crashed' = TRUE /\ handlers' = EmptyBag
  /\ emitted' = {}
  /\ UNCHANGED <<store, pushed>>

\* the first step of both acknowledgment handlers (lines 609-626 / 731-748)
AckStart(kind, s, messageId, from) ==
  /\ ~crashed
  /\ Live(s)
  /\ acks < MaxAcks
  /\ acks' = acks + 1
  /\ emitted' = {}
  /\ IF socketUsername[s] = NoName \/ messageId = NoMsg \/ from = NoName
       THEN UNCHANGED handlers
       ELSE /\ CanSuspend
            /\ Suspend([Locals EXCEPT !.kind = kind, !.pc = "find",
                                    !.user = socketUsername[s], !.msgId = messageId,
                                    !.from = from])
  /\ UNCHANGED <<sockState, registry, directory, store, nextSock, nextGid, nextMsg, pushed, crashed>>

(* message_delivered *)
MessageDelivered(s, messageId, from) == AckStart("message_delivered", s, messageId, from)

\* lines 683-720: in-memory update, then the notification of the sender
\* a faulty variant of the end of message_delivered that updates the tracker
\* and notifies nobody
DeliveredTailSilent(h0, h) ==
  /\ messageStatus' = TrackDelivered(h.msgId, h.user)
  /\ Finish(h0)
  /\ emitted' = {}

DeliveredTail(h0, h) ==
  /\ messageStatus' = TrackDelivered(h.msgId, h.user)
  /\ LET senderSocketId == IF Has(userSocketMap, h.from) THEN userSocketMap[h.from] ELSE NoSock
         info == Has(messageStatus, h.msgId)
     IN
     IF senderSocketId = NoSock
       THEN Finish(h0) /\ emitted' = {}
       ELSE IF h.chatType = "private"
         THEN /\ Finish(h0)
              /\ emitted' = Deliverable({Ev("messageDelivered", senderSocketId, h.msgId,
                                            0, 0, "delivered")})
         ELSE /\ Resume(h0, [h EXCEPT !.pc = "count", !.target = senderSocketId,
                                     !.total = IF info THEN messageStatus[h.msgId].totalMembers
                                               ELSE 1])
              /\ emitted' = {}

\* the continuation of `await Message.findOne` (lines 626-677)
DeliveredFound(h0, ok) ==
  /\ ~crashed
  /\ At(h0, "message_delivered", "find")
  /\ LET messageDoc == FindOne(h0.msgId)
         h == [h0 EXCEPT !.chatType = messageDoc.chatType]
     IN
     IF ~ok \/ messageDoc = NoDoc \/ ~Entitled(messageDoc, h.user, h.from)
       THEN /\ Finish(h0)
            /\ emitted' = {}
            /\ UNCHANGED messageStatus
       ELSE IF messageDoc.chatType = "group" /\ Includes(messageDoc.deliveredTo, h.user)
         THEN DeliveredTail(h0, h)
         ELSE /\ Resume(h0, [h EXCEPT !.pc = "update"])
              /\ emitted' = {}
              /\ UNCHANGED messageStatus
  /\ UNCHANGED <<sockState, registry, directory, Message, counters, pushed, crashed>>

\* the continuation of `await Message.updateOne` (lines 655-720)
DeliveredUpdated(h, ok) ==
  /\ ~crashed
  /\ At(h, "message_delivered", "update")
  /\ IF ~ok
       THEN /\ Finish(h)
            /\ emitted' = {}
            /\ UNCHANGED store
       ELSE /\ Message' = IF h.chatType = "private"
                            THEN DbDeliveredPrivate(h.msgId)
                            ELSE DbDeliveredGroup(h.msgId, h.user)
            /\ DeliveredTail(h, h)
  /\ UNCHANGED <<sockState, registry, directory, counters, pushed, crashed>>

\* the continuation of the second `await Message.findOne` (lines 710-717)
DeliveredCounted(h, ok) ==
  /\ ~crashed
  /\ At(h, "message_delivered", "count")
  /\ IF ~ok
       THEN Unhandled(h)
       ELSE /\ Finish(h)
            /\ emitted' = Deliverable({Ev("messageDelivered", h.target, h.msgId,
                                          Len(FindOne(h.msgId).deliveredTo),
                                          h.total, "delivered")})
            /\ UNCHANGED <<store, pushed, crashed>>
  /\ UNCHANGED <<sockState, registry, directory, counters>>

(* message_read *)
MessageRead(s, messageId, from) == AckStart("message_read", s, messageId, from)

\* lines 817-854: in-memory update, then the notification of the sender
ReadTail(h0, h) ==
  /\ messageStatus' = TrackRead(h.msgId, h.user)
  /\ LET senderSocketId == IF Has(userSocketMap, h.from) THEN userSocketMap[h.from] ELSE NoSock
         info == Has(messageStatus, h.msgId)
     IN
     IF senderSocketId = NoSock
       THEN Finish(h0) /\ emitted' = {}
       ELSE IF h.chatType = "private"
         THEN /\ Finish(h0)
              /\ emitted' = Deliverable({Ev("messageRead", senderSocketId, h.msgId, 0, 0, "read")})
         ELSE \* total 0 stands for "no tracker entry": the count read later is used instead
              /\ Resume(h0, [h EXCEPT !.pc = "count", !.target = senderSocketId,
                                     !.total = IF info THEN messageStatus[h.msgId].totalMembers
                                               ELSE 0])
              /\ emitted' = {}

\* the continuation of `await Message.findOne` (lines 748-789)
ReadFound(h0, ok) ==
  /\ ~crashed
  /\ At(h0, "message_read", "find")
  /\ LET messageDoc == FindOne(h0.msgId)
         h == [h0 EXCEPT !.chatType = messageDoc.chatType]
     IN
     IF ~ok \/ messageDoc = NoDoc \/ ~Entitled(messageDoc, h.user, h.from)
       THEN /\ Finish(h0)
            /\ emitted' = {}
            /\ UNCHANGED messageStatus
       ELSE IF messageDoc.chatType = "group" /\ Includes(messageDoc.readBy, h.user)
         THEN ReadTail(h0, h)
         ELSE /\ Resume(h0, [h EXCEPT !.pc = "update"])
              /\ emitted' = {}
              /\ UNCHANGED messageStatus
  /\ UNCHANGED <<sockState, registry, directory, Message, counters, pushed, crashed>>

\* the continuation of the first `await Message.updateOne` (lines 777-795)
ReadUpdated(h, ok) ==
  /\ ~crashed
  /\ At(h, "message_read", "update")
  /\ IF ~ok
       THEN /\ Finish(h)
            /\ emitted' = {}
            /\ UNCHANGED store
       ELSE IF h.chatType = "private"
         THEN /\ Message' = DbSetRead(h.msgId)
              /\ ReadTail(h, h)
         ELSE /\ Message' = DbAddReadBy(h.msgId, h.user)
              /\ Resume(h, [h EXCEPT !.pc = "recount"])
              /\ emitted' = {}
              /\ UNCHANGED messageStatus
  /\ UNCHANGED <<sockState, registry, directory, counters, pushed, crashed>>

\* lines 798-802: has every counted recipient read the message
AllRead(id) ==
  LET updatedDoc == FindOne(id)
      totalMembers == IF Has(messageStatus, id) THEN messageStatus[id].totalMembers
                      ELSE Len(updatedDoc.readBy)
  IN Len(updatedDoc.readBy) = totalMembers

\* the continuation of `await Message.findOne` inside the try block (lines 798-807)
ReadRecounted(h, ok) ==
  /\ ~crashed
  /\ At(h, "message_read", "recount")
  /\ IF ~ok
       THEN /\ Finish(h)
            /\ emitted' = {}
            /\ UNCHANGED messageStatus
       ELSE IF AllRead(h.msgId)
         THEN /\ Resume(h, [h EXCEPT !.pc = "setRead"])
              /\ emitted' = {}
              /\ UNCHANGED messageStatus
         ELSE ReadTail(h, h)
  /\ UNCHANGED <<sockState, registry, directory, Message, counters, pushed, crashed>>

\* the continuation of the second `await Message.updateOne` (lines 803-806)
ReadStatusSet(h, ok) ==
  /\ ~crashed
  /\ At(h, "message_read", "setRead")
  /\ IF ~ok
       THEN /\ Finish(h)
            /\ emitted' = {}
            /\ UNCHANGED store
       ELSE /\ Message' = DbSetRead(h.msgId)
            /\ ReadTail(h, h)
  /\ UNCHANGED <<sockState, registry, directory, counters, pushed, crashed>>

\* the continuation of the last `await Message.findOne` (lines 843-851)
ReadCounted(h, ok) ==
  /\ ~crashed
  /\ At(h, "message_read", "count")
  /\ IF ~ok
       THEN Unhandled(h)
       ELSE LET readCount == Len(FindOne(h.msgId).readBy)
                totalMembers == IF h.total = 0 THEN readCount ELSE h.total
            IN
            /\ Finish(h)
            /\ emitted' = Deliverable({Ev("messageRead", h.target, h.msgId, readCount, totalMembers,
                                          IF readCount = totalMembers THEN "read" ELSE "delivered")})
            /\ UNCHANGED <<store, pushed, crashed>>
  /\ UNCHANGED <<sockState, registry, directory, counters>>

(* --------------------------- specification ----------------------------- *)
Texts == {"", "hi"}

\* the message ids a client can put in an acknowledgment: those a payload has
\* carried to a session (an id is a timestamp and nine random characters)
KnownIds == pushed

\* the registry and group-directory events
NextDirectory ==
  \/ Connect
  \/ \E s \in Sockets, n \in Names \cup {NoName} : Register(s, n)
  \/ \E s \in Sockets : Disconnect(s)
  \/ \E s \in Sockets, g \in GroupNames \cup {NoGroup} : JoinGroup(s, g)
  \/ \E s \in Sockets, g \in GroupNames \cup {NoGroup} : LeaveGroup(s, g)
  \/ \E s \in Sockets, g \in GroupNames \cup {NoGroup}, n \in Names \cup {NoName} :
       AddUserToGroup(s, g, n)
  \/ \E s \in Sockets, g \in GroupNames \cup {NoGroup}, n \in Names \cup {NoName} :
       RemoveUserFromGroup(s, g, n)

\* the send and acknowledgment events and the continuations of their awaits
NextMessaging ==
  \/ \E s \in Sockets, n \in Names \cup {NoName}, x \in Texts :
       PrivateMessage(s, n, x) /\ nextMsg' <= MaxAckedMsgs + 1
  \/ \E h \in Pending, ok \in BOOLEAN : PrivateMessageSaved(h, ok)
  \/ \E s \in Sockets, g \in GroupNames \cup {NoGroup}, x \in Texts :
       GroupMessage(s, g, x) /\ nextMsg' <= MaxAckedMsgs + 1
  \/ \E h \in Pending, ok \in BOOLEAN : GroupMessageSaved(h, ok)
  \/ \E s \in Sockets, m \in KnownIds \cup {NoMsg, UnknownMsg}, n \in Names \cup {NoName} :
       MessageDelivered(s, m, n) /\ acks' <= MaxRacingAcks
  \/ \E h \in Pending, ok \in BOOLEAN : DeliveredFound(h, ok)
  \/ \E h \in Pending, ok \in BOOLEAN : DeliveredUpdated(h, ok)
  \/ \E h \in Pending, ok \in BOOLEAN : DeliveredCounted(h, ok)
  \/ \E s \in Sockets, m \in KnownIds \cup {NoMsg, UnknownMsg}, n \in Names \cup {NoName} :
       MessageRead(s, m, n) /\ acks' <= MaxRacingAcks
  \/ \E h \in Pending, ok \in BOOLEAN : ReadFound(h, ok)
  \/ \E h \in Pending, ok \in BOOLEAN : ReadUpdated(h, ok)
  \/ \E h \in Pending, ok \in BOOLEAN : ReadRecounted(h, ok)
  \/ \E h \in Pending, ok \in BOOLEAN : ReadStatusSet(h, ok)
  \/ \E h \in Pending, ok \in BOOLEAN : ReadCounted(h, ok)

\* the membership changes and disconnects that race the messaging handlers:
\* the directory events that are not refused
Effective == <<directory, crashed>>' # <<directory, crashed>>
NextMembership ==
  \/ \E s \in Sockets : Disconnect(s)
  \/ \E s \in Sockets, g \in GroupNames : JoinGroup(s, g) /\ Effective
  \/ \E s \in Sockets, g \in GroupNames : LeaveGroup(s, g) /\ Effective
  \/ \E s \in Sockets, g \in GroupNames, n \in Names : AddUserToGroup(s, g, n) /\ Effective
  \/ \E s \in Sockets, g \in GroupNames, n \in Names : RemoveUserFromGroup(s, g, n) /\ Effective

\* the send events that pass validation, the acknowledgments, and every
\* continuation, with the outcomes the message collection may give each call
\* (TRUE: the call succeeds, FALSE: it throws)
\* the valid traffic with at most MaxSent acknowledgments
TrafficWithin(Outcomes, MaxSent) ==
  \/ \E s \in Sockets, n \in Names :
       PrivateMessage(s, n, "hi") /\ handlers' # handlers /\ nextMsg' <= MaxAckedMsgs + 1
  \/ \E h \in Pending, ok \in Outcomes : PrivateMessageSaved(h, ok)
  \/ \E s \in Sockets, g \in GroupNames :
       GroupMessage(s, g, "hi") /\ handlers' # handlers /\ nextMsg' <= MaxAckedMsgs + 1
  \/ \E h \in Pending, ok \in Outcomes : GroupMessageSaved(h, ok)
  \/ \E s \in Sockets, m \in KnownIds, n \in Names :
       MessageDelivered(s, m, n) /\ acks' <= MaxSent
  \/ \E h \in Pending, ok \in Outcomes : DeliveredFound(h, ok)
  \/ \E h \in Pending, ok \in Outcomes : DeliveredUpdated(h, ok)
  \/ \E h \in Pending, ok \in Outcomes : DeliveredCounted(h, ok)
  \/ \E s \in Sockets, m \in KnownIds, n \in Names :
       MessageRead(s, m, n) /\ acks' <= MaxSent
  \/ \E h \in Pending, ok \in Outcomes : ReadFound(h, ok)
  \/ \E h \in Pending, ok \in Outcomes : ReadUpdated(h, ok)
  \/ \E h \in Pending, ok \in Outcomes : ReadRecounted(h, ok)
  \/ \E h \in Pending, ok \in Outcomes : ReadStatusSet(h, ok)
  \/ \E h \in Pending, ok \in Outcomes : ReadCounted(h, ok)

Traffic(Outcomes) == TrafficWithin(Outcomes, MaxRacingAcks)

Next == NextDirectory \/ NextMessaging

\* The whole server from start-up.
Spec == Init /\ [][Next]_vars

\* The registry and the group directory from start-up, with no message traffic.
SpecDirectory == Init /\ [][NextDirectory]_vars

\* The state Spec reaches by: connect 1, connect 2, register(1, "alice"),
\* register(2, "bob"), joinGroup(1, "team"), joinGroup(2, "team").
InitChat ==
  /\ sockState = [s \in Sockets |-> IF s <= 2 THEN "live" ELSE "none"]
  /\ socketUsername = [s \in Sockets |-> IF s = 1 THEN "alice" ELSE IF s = 2 THEN "bob" ELSE NoName]
  /\ userSocketMap = [n \in {"alice", "bob"} |-> IF n = "alice" THEN 1 ELSE 2]
  /\ socketUserMap = [s \in {1, 2} |-> IF s = 1 THEN "alice" ELSE "bob"]
  /\ rooms = [g \in {"team"} |-> {1, 2}]
  /\ userRooms = [s \in {1, 2} |-> {"team"}]
  /\ groupIds = [g \in {"team"} |-> 1]
  /\ groupMembers = [k \in {1} |-> {"alice", "bob"}]
  /\ messageStatus = EmptyMap
  /\ Message = EmptyMap
  /\ ioById = {<<1, 1>>, <<2, 1>>}
  /\ ioByName = {<<1, "team">>, <<2, "team">>}
  /\ nextSock = 3
  /\ nextGid = 2
  /\ nextMsg = 1
  /\ acks = 0
  /\ handlers = EmptyBag
  /\ emitted = {Ev("groupJoined", 2, NoMsg, 0, 0, ""), Ev("userJoinedGroup", 1, NoMsg, 0, 0, "")}
  /\ pushed = {}
  /\ crashed = FALSE

\* Message traffic between two registered members of one group.
SpecAck == InitChat /\ [][NextMessaging]_vars

\* Message traffic raced by membership changes and disconnects.
NextChat == Traffic(BOOLEAN) \/ NextMembership
SpecChat == InitChat /\ [][NextChat]_vars

\* The same with a message collection whose calls all succeed.
NextReliable == Traffic({TRUE}) \/ NextMembership
SpecReliable == InitChat /\ [][NextReliable]_vars

\* Message traffic alone: both sessions stay connected and registered, the
\* group keeps its two members, and every persistence call succeeds.
NextTraffic == Traffic({TRUE})
SpecTraffic == InitChat /\ [][NextTraffic]_vars

\* a pending persistence call returns, with one of the given outcomes, and the
\* handler that awaited it continues
PersistenceReturns(Outcomes) ==
  \E h \in Pending, ok \in Outcomes :
    \/ PrivateMessageSaved(h, ok)
    \/ GroupMessageSaved(h, ok)
    \/ DeliveredFound(h, ok)
    \/ DeliveredUpdated(h, ok)
    \/ DeliveredCounted(h, ok)
    \/ ReadFound(h, ok)
    \/ ReadUpdated(h, ok)
    \/ ReadRecounted(h, ok)
    \/ ReadStatusSet(h, ok)
    \/ ReadCounted(h, ok)

\* the valid traffic where every pending persistence call eventually returns
\* its result: the event loop runs the continuation of a settled promise once
\* the running handler has yielded
SpecLive == SpecTraffic /\ WF_vars(PersistenceReturns({TRUE}))

\* the valid traffic with repeated acknowledgments: every member can
\* acknowledge delivery and read, and acknowledge again
NextRepeats == TrafficWithin({TRUE}, MaxAcks)
SpecRepeats == InitChat /\ [][NextRepeats]_vars

\* The send events alone, up to MaxMsgs of them, each durable append
\* succeeding or failing.
NextSend ==
  \/ \E s \in Sockets, n \in Names \cup {NoName}, x \in Texts : PrivateMessage(s, n, x)
  \/ \E h \in Pending, ok \in BOOLEAN : PrivateMessageSaved(h, ok)
  \/ \E s \in Sockets, g \in GroupNames \cup {NoGroup}, x \in Texts : GroupMessage(s, g, x)
  \/ \E h \in Pending, ok \in BOOLEAN : GroupMessageSaved(h, ok)
SpecSend == InitChat /\ [][NextSend]_vars

\* the sends while sessions close: a send may address an identity that has left
NextOutbox ==
  \/ NextSend
  \/ \E s \in Sockets : Disconnect(s)
SpecOutbox == InitChat /\ [][NextOutbox]_vars

(* ============================== claims ================================= *)
Tracked == DOMAIN messageStatus
Stored == DOMAIN Message
Quiet == handlers = EmptyBag

\* C1: the status of every message, in the tracker and in the durable record,
\* never decreases under sent < delivered < read, whatever acknowledgments
\* arrive and in whatever order.
C1_StatusNeverDecreases ==
  [][\A m \in Stored :
       /\ Rank(Message'[m].status) >= Rank(Message[m].status)
       /\ m \in Tracked => Rank(messageStatus'[m].status) >= Rank(messageStatus[m].status)]_vars

\* C2: while no handler is suspended, a group message is read, in the tracker
\* and in the durable record, exactly when the size of its read-by set equals
\* the total-recipient-count recorded at send time.
C2_ReadIffAllRead ==
  (Quiet /\ ~crashed) =>
    \A m \in Tracked :
      messageStatus[m].chatType = "group" =>
        /\ messageStatus[m].status = "read"
             <=> Cardinality(messageStatus[m].readBy) = messageStatus[m].totalMembers
        /\ Message[m].status = "read"
             <=> Len(Message[m].readBy) = messageStatus[m].totalMembers

\* C3: once a delivery and a read acknowledgment of a private message have both
\* been applied (both timestamps are set) and no handler is suspended, the
\* record and the tracker hold the state that the order delivered-then-read
\* yields, whichever acknowledgment came first.
C3_AckOrderConverges ==
  Quiet =>
    \A m \in Tracked :
      (Message[m].chatType = "private" /\ Message[m].deliveredAt /\ Message[m].readAt) =>
        Message[m].status = "read" /\ messageStatus[m].status = "read"

\* a step that runs one continuation of the suspended handler h
StepOf(h) == BagIn(h, handlers) /\ CopiesIn(h, handlers') < CopiesIn(h, handlers)

\* the identity h.user has already acknowledged (delivery or read, as h.kind
\* says) the group message h.msgId, in the durable record and in the tracker
AlreadyApplied(h) ==
  /\ h.msgId \in Tracked
  /\ Message[h.msgId].chatType = "group"
  /\ IF h.kind = "message_delivered"
       THEN /\ Includes(Message[h.msgId].deliveredTo, h.user)
            /\ h.user \in messageStatus[h.msgId].deliveredTo
       ELSE /\ h.kind = "message_read"
            /\ Includes(Message[h.msgId].readBy, h.user)
            /\ h.user \in messageStatus[h.msgId].readBy

\* C4: a step of an acknowledgment handler whose (group message, actor) pair
\* has already been applied changes neither the delivered-to nor the read-by
\* set, in the durable record or in the tracker, and the count it reports to
\* the sender is the size the durable set already had.
C4_ReissueIsIdempotent ==
  [][\A h \in Pending :
       (StepOf(h) /\ AlreadyApplied(h)) =>
          LET m == h.msgId IN
          /\ Message'[m].deliveredTo = Message[m].deliveredTo
          /\ Message'[m].readBy = Message[m].readBy
          /\ messageStatus'[m].deliveredTo = messageStatus[m].deliveredTo
          /\ messageStatus'[m].readBy = messageStatus[m].readBy
          /\ \A e \in emitted' :
               /\ e.ev = "messageDelivered" => e.count = Len(Message[m].deliveredTo)
               /\ e.ev = "messageRead" => e.count = Len(Message[m].readBy)]_vars

\* C4 witness: two identical delivery acknowledgments of one group message have
\* both been applied (both handlers wait for the count they report) and the
\* delivered-to array holds the actor once.
C4_Witness ==
  \E h \in Pending :
    /\ CopiesIn(h, handlers) = 2
    /\ h.kind = "message_delivered" /\ h.pc = "count"
    /\ Message[h.msgId].deliveredTo = <<h.user>>

\* a step in which the suspended send handler h ends without a durable record
CreateFailedStep(h) ==
  /\ StepOf(h)
  /\ h.pc = "create"
  /\ h.msgId \notin Stored'

\* C5: a step in which Message.create of a privateMessage or groupMessage fails
\* creates no tracker entry and pushes no privateMessage, groupMessage or
\* messageSent payload; and after every step, each message that has a tracker
\* entry or has been pushed to a session has a durable record.
C5_FailedCreateIsAtomic ==
  [][/\ \A h \in Pending :
          CreateFailedStep(h) =>
            /\ messageStatus' = messageStatus
            /\ pushed' = pushed
            /\ PushedIds(emitted') = {}
     /\ (Tracked' \cup pushed') \subseteq Stored']_vars

\* C5 witness: a send has ended with "Failed to save message"; its message id
\* has been consumed and has no durable record.
C5_Witness ==
  /\ \E e \in emitted : e.ev = "error" /\ e.message = "Failed to save message"
  /\ \E m \in MsgIds : m < nextMsg /\ m \notin Stored
  /\ \A h \in Pending : h.pc # "create"

\* C6: the only acknowledgment received so far is a message_read of a group
\* message, and its follow-up status update (lines 803-806) fails: after the
\* handler has ended, the durable record and the tracker entry are those the
\* send created.
C6_FailedAckLeavesMessageUntouched ==
  [][\A h \in Pending :
       (/\ StepOf(h) /\ ~crashed'
        /\ acks = 1
        /\ h.kind = "message_read" /\ h.pc = "setRead"
        /\ Message'[h.msgId].status # "read")
       => /\ Message'[h.msgId] = GroupDoc(Message[h.msgId].from, Message[h.msgId].groupId)
          /\ messageStatus'[h.msgId].readBy = {}
          /\ messageStatus'[h.msgId].status = "sent"]_vars

\* the member set of the group a name resolves to (empty when it resolves to none)
MembersOf(g) ==
  IF Has(groupIds, g) /\ Has(groupMembers, groupIds[g]) THEN groupMembers[groupIds[g]] ELSE {}

\* C7: while the server runs, a group name resolves to an identifier, and is in
\* the group list, exactly when the group's member set is non-empty.
C7_GroupExistsIffNonEmpty ==
  ~crashed =>
    \A g \in GroupNames :
      /\ Has(groupIds, g) <=> MembersOf(g) # {}
      /\ g \in GroupList <=> MembersOf(g) # {}

\* a leaveGroup event of the registered session s that is in group g
LeaveStep(s, g) ==
  /\ LeaveGroup(s, g)
  /\ socketUsername[s] # NoName
  /\ Has(rooms, g) /\ s \in rooms[g]
  /\ Has(groupIds, g)

\* C8: a leaveGroup of the last member of a group deletes the group: the name
\* no longer resolves, the identifier has no member set, and the group list
\* does not contain the name.
C8_LastLeaveDeletesGroup ==
  [][\A s \in Sockets, g \in GroupNames :
       (LeaveStep(s, g) /\ rooms[g] = {s}) =>
          /\ ~Has(groupIds', g)
          /\ ~Has(groupMembers', groupIds[g])
          /\ g \notin GroupList']_vars

\* C9: a leaveGroup of a member of a group that has other members removes that
\* identity from the sessions of the group name, from the members of the group
\* identifier and from the session's own list of groups, and keeps the
\* identifier and every other member.
C9_LeaveRemovesFromEveryIndex ==
  [][\A s \in Sockets, g \in GroupNames :
       (LeaveStep(s, g) /\ rooms[g] # {s}) =>
          LET gid == groupIds[g] IN
          /\ rooms'[g] = rooms[g] \ {s}
          /\ groupMembers'[gid] = groupMembers[gid] \ {socketUsername[s]}
          /\ (Has(userRooms', s) => g \notin userRooms'[s])
          /\ Has(groupIds', g) /\ groupIds'[g] = gid]_vars

\* a register event of session s naming an identity a live session holds
RegisterTakenStep(s, n) ==
  /\ Register(s, n)
  /\ Has(userSocketMap, n)
  /\ Live(userSocketMap[n])

\* C10: a register event that names an identity held by a live session sends
\* "Username already taken" to the requesting session and changes neither
\* registry map; the identity still resolves to the session that held it.
C10_TakenNameIsRefused ==
  [][\A s \in Sockets, n \in Names :
       RegisterTakenStep(s, n) =>
          /\ ErrorEv(s, "Username already taken") \in emitted'
          /\ userSocketMap' = userSocketMap
          /\ socketUserMap' = socketUserMap
          /\ userSocketMap'[n] = userSocketMap[n]]_vars

\* C10 witness: a session other than the holder of an identity has just been
\* refused with "Username already taken".
C10_Witness ==
  \E e \in emitted, n \in Names :
    /\ e.ev = "error" /\ e.message = "Username already taken"
    /\ Has(userSocketMap, n) /\ userSocketMap[n] # e.to /\ Live(userSocketMap[n])

\* identity n resolves to session s / session s resolves to identity n
Resolves(n, s) == Has(userSocketMap, n) /\ userSocketMap[n] = s
ResolvesBack(s, n) == Has(socketUserMap, s) /\ socketUserMap[s] = n

\* C11: the two registry maps are mutual inverses: identity n resolves to
\* session s exactly when session s resolves to identity n.
C11_RegistryMapsAreInverses ==
  \A n \in Names, s \in Sockets : Resolves(n, s) <=> ResolvesBack(s, n)

\* C12: once the disconnect of a session has been handled, no identity of the
\* registry resolves to that session (so each identity it had registered is
\* free to be registered again).
C12_DisconnectFreesIdentities ==
  \A n \in Names, s \in Sockets : Resolves(n, s) => sockState[s] # "closed"

\* C13: no two live sessions are registered under the same identity, by the
\* socket's own username property or by the session -> identity map.
C13_NoSharedIdentity ==
  \A s \in Sockets, u \in Sockets :
    (s # u /\ Live(s) /\ Live(u)) =>
       /\ socketUsername[s] # NoName => socketUsername[s] # socketUsername[u]
       /\ Has(socketUserMap, s) /\ Has(socketUserMap, u) => socketUserMap[s] # socketUserMap[u]

\* C13 witness: two live sessions are registered and one of them has just
\* asked for the identity of the other and been refused.
C13_Witness ==
  /\ \A s \in Sockets : Live(s) /\ socketUsername[s] # NoName /\ Has(socketUserMap, s)
  /\ \E s \in Sockets : ErrorEv(s, "Username already taken") \in emitted

\* the suspended acknowledgment handler h awaits its lookup, and the message
\* it names has no durable record or is a private message whose recorded
\* recipient is not the acknowledging identity
Foreign(h) ==
  /\ h.kind \in {"message_delivered", "message_read"}
  /\ h.pc = "find"
  /\ \/ h.msgId \notin Stored
     \/ Message[h.msgId].chatType = "private" /\ Message[h.msgId].to # h.user

\* C14: the step that resumes such a handler ends it: the durable collection
\* and the tracker are unchanged, no event is sent to any session, and no
\* continuation of the handler remains.
C14_ForeignAckIsIgnored ==
  [][\A h \in Pending :
       (StepOf(h) /\ Foreign(h)) =>
          /\ Message' = Message
          /\ messageStatus' = messageStatus
          /\ emitted' = {}
          /\ BagCardinality(handlers') < BagCardinality(handlers)]_vars

\* C14 witness: both cases are being handled at once: an acknowledgment of an
\* id that has no record, and one of a stored private message by an identity
\* that is not its recipient.
C14_Witness ==
  /\ \E h \in Pending : Foreign(h) /\ h.msgId \notin Stored
  /\ \E h \in Pending : Foreign(h) /\ h.msgId \in Stored

\* the stored private messages
PrivateIds == {m \in Stored : Message[m].chatType = "private"}

\* C15: a private message becomes read only from delivered, in the durable
\* record and in the tracker: no step takes it from sent to read.
C15_ReadOnlyAfterDelivered ==
  [][\A m \in PrivateIds :
       /\ (Message'[m].status = "read" /\ Message[m].status # "read")
            => Message[m].status = "delivered"
       /\ (m \in Tracked /\ messageStatus'[m].status = "read" /\ messageStatus[m].status # "read")
            => messageStatus[m].status = "delivered"]_vars

\* C16: the sender of a private message is notified of its delivery at most
\* once and of its reading at most once. Where the sender stays connected, each
\* durable delivered (read) update is followed in the same step by the
\* notification, so a messageDelivered (messageRead) event for a message whose
\* deliveredAt (readAt) is already set is a second notification.
C16_NotifiedAtMostOnce ==
  [][\A e \in emitted' :
       e.msg \in PrivateIds =>
          /\ e.ev = "messageDelivered" => ~Message[e.msg].deliveredAt
          /\ e.ev = "messageRead" => ~Message[e.msg].readAt]_vars

\* C17: a messageDelivered or messageRead notification goes only to a session
\* of the identity recorded as the message's sender.
C17_NotifiesRecordedSender ==
  [][\A e \in emitted' :
       (e.ev \in {"messageDelivered", "messageRead"} /\ e.msg \in Stored) =>
          socketUsername[e.to] = Message[e.msg].from]_vars

\* the identities that are members of the group of the group message m now
MembersNow(m) ==
  IF Has(groupMembers, Message[m].groupId) THEN groupMembers[Message[m].groupId] ELSE {}

\* C18: a group message was sent to more recipients than its group has
\* members now, every identity that is no longer a member is offline, no
\* delivery acknowledgment is involved, and every remaining member has read
\* the message, all handlers having ended: no further acknowledgment of a
\* send-time member can change the record, so the message is read.
C18_LeaverDoesNotBlockRead ==
  Quiet =>
    \A m \in Tracked :
      (/\ Message[m].chatType = "group"
       /\ MembersNow(m) # {}
       /\ Cardinality(MembersNow(m)) < messageStatus[m].totalMembers
       /\ \A n \in Names \ MembersNow(m) : ~Has(userSocketMap, n)
       /\ Message[m].deliveredTo = <<>>
       /\ \A n \in MembersNow(m) : Includes(Message[m].readBy, n) /\ n \in messageStatus[m].readBy)
      => Message[m].status = "read" /\ messageStatus[m].status = "read"

\* a disconnect of the registered session s
DisconnectStep(s) == Disconnect(s) /\ Has(socketUserMap, s)

\* the identities under which session s is recorded in the registry
IdentitiesOf(s) ==
  {n \in Names : Resolves(n, s)} \cup (IF Has(socketUserMap, s) THEN {socketUserMap[s]} ELSE {})

\* C19: the step that handles the disconnect of a registered session leaves
\* the session in no group's session set, its identities in no group's member
\* set, the session without a reverse-index entry, and no group that the
\* disconnect emptied.
C19_DisconnectSweepsGroups ==
  [][\A s \in Sockets :
       DisconnectStep(s) =>
          /\ \A g \in DOMAIN rooms' : s \notin rooms'[g]
          /\ \A k \in DOMAIN groupMembers' : groupMembers'[k] \cap IdentitiesOf(s) = {}
          /\ ~Has(userRooms', s)
          /\ \A g \in DOMAIN rooms :
               (s \in rooms[g] /\ rooms[g] = {s}) =>
                  /\ ~Has(rooms', g)
                  /\ ~Has(groupIds', g)
                  /\ Has(groupIds, g) => ~Has(groupMembers', groupIds[g])]_vars

\* the private message m2 was sent after m by the same identity to the same
\* recipient (identifiers are minted in the order the send events arrive)
LaterInStream(m2, m) ==
  /\ m2 > m
  /\ m2 \in PrivateIds
  /\ Message[m2].from = Message'[m].from
  /\ Message[m2].to = Message'[m].to

\* C20: no private message is pushed to its recipient after a later message of
\* the same sender to the same recipient has been pushed.
C20_PushedInSendOrder ==
  [][\A e \in emitted' :
       e.ev = "privateMessage" => \A m2 \in pushed : ~LaterInStream(m2, e.msg)]_vars

\* the suspended handler h is an acknowledgment of message m by its recipient
RecipientAck(h, m) ==
  /\ h.kind \in {"message_delivered", "message_read"}
  /\ h.msgId = m
  /\ h.user = Message[m].to

\* C21: when the durable append of a private message completes after the
\* resolved recipient session has closed, no session is sent the privateMessage
\* payload and the tracker entry is created with status sent; and the status
\* of a private message, durable or tracked, changes only in a step of an
\* acknowledgment handler of the recipient identity.
C21_PushToClosedRecipientIsDropped ==
  [][/\ \A h \in Pending :
          (/\ StepOf(h) /\ h.kind = "privateMessage" /\ h.pc = "create"
           /\ ~Live(h.target)
           /\ h.msgId \in Stored')
          => /\ \A e \in emitted' : e.ev # "privateMessage"
             /\ h.msgId \in Tracked'
             /\ messageStatus'[h.msgId].status = "sent"
             /\ Message'[h.msgId].status = "sent"
     /\ \A m \in PrivateIds :
          (\/ Message'[m].status # Message[m].status
           \/ m \in Tracked /\ messageStatus'[m].status # messageStatus[m].status)
          => \E h \in Pending : StepOf(h) /\ RecipientAck(h, m)]_vars

\* C21 witness: the last step confirmed a private message to its sender and
\* pushed it to nobody, its recipient session being closed; the message is
\* tracked with status sent.
C21_Witness ==
  \E e \in emitted :
    /\ e.ev = "messageSent"
    /\ \A e2 \in emitted : e2.ev # "privateMessage"
    /\ e.msg \in Tracked /\ messageStatus[e.msg].status = "sent"
    /\ ~Has(userSocketMap, Message[e.msg].to)

\* C22: group name g is in the reverse-index set of session s exactly when s
\* is in the session set of g.
C22_ReverseIndexAgrees ==
  \A s \in Sockets, g \in GroupNames :
    (Has(userRooms, s) /\ g \in userRooms[s]) <=> (Has(rooms, g) /\ s \in rooms[g])

\* C22 witness: a session has been taken out of a group that still has another
\* session, and its reverse-index set is empty.
C22_Witness ==
  \E s \in Sockets, g \in GroupNames :
    /\ Has(userRooms, s) /\ userRooms[s] = {}
    /\ Has(rooms, g) /\ s \notin rooms[g] /\ rooms[g] # {}

\* the handler h was suspended in this step
Started(h) == CopiesIn(h, handlers') > CopiesIn(h, handlers)

\* the suspended handler h is bob's acknowledgment, addressed to alice, of a
\* private message from alice to bob
ScenarioAck(h, kind, pc) ==
  /\ StepOf(h) /\ h.kind = kind /\ h.pc = pc
  /\ h.user = "bob" /\ h.from = "alice"
  /\ FindOne(h.msgId) # NoDoc
  /\ FindOne(h.msgId).chatType = "private"
  /\ FindOne(h.msgId).from = "alice" /\ FindOne(h.msgId).to = "bob"

\* C23: with alice and bob registered, the saved private message of alice to
\* bob is pushed to bob's session with status sent; bob's delivery
\* acknowledgment is accepted and, once recorded with its delivery time, alice's
\* session is sent messageDelivered with status delivered; bob's read
\* acknowledgment is accepted and, once recorded, alice's session is sent
\* messageRead with status read.
C23_ScenarioA ==
  [][\A h \in Pending :
       /\ (/\ StepOf(h) /\ h.kind = "privateMessage" /\ h.pc = "create"
           /\ h.user = "alice" /\ h.to = "bob" /\ h.msgId \in Stored')
          => Ev("privateMessage", userSocketMap["bob"], h.msgId, 0, 0, "sent") \in emitted'
       /\ \A kind \in {"message_delivered", "message_read"} :
            ScenarioAck(h, kind, "find")
            => \E h2 \in BagToSet(handlers') :
                 Started(h2) /\ h2.kind = kind /\ h2.pc = "update" /\ h2.msgId = h.msgId
       /\ ScenarioAck(h, "message_delivered", "update")
          => /\ Message'[h.msgId].deliveredAt
             /\ emitted' = {Ev("messageDelivered", userSocketMap["alice"], h.msgId,
                               0, 0, "delivered")}
       /\ ScenarioAck(h, "message_read", "update")
          => /\ Message'[h.msgId].readAt
             /\ emitted' = {Ev("messageRead", userSocketMap["alice"], h.msgId,
                               0, 0, "read")}]_vars

\* C23 witness: alice's session has just been sent messageRead for her message
\* to bob, whose delivery had been recorded before.
C23_Witness ==
  \E m \in PrivateIds :
    /\ Message[m].from = "alice" /\ Message[m].to = "bob"
    /\ m \in pushed
    /\ Message[m].deliveredAt /\ Message[m].readAt /\ Message[m].status = "read"
    /\ emitted = {Ev("messageRead", userSocketMap["alice"], m, 0, 0, "read")}

\* C24: the total recorded for a group message is the number of sessions in
\* the group when groupMessage was handled, the sender's among them, and a
\* group messageDelivered notification carries the number of identities in the
\* durable delivered-to list and that total.
C24_TotalCountsSessionsAtSend ==
  [][/\ \A h \in BagToSet(handlers') :
          (Started(h) /\ h.kind = "groupMessage" /\ h.pc = "create")
          => \E g \in DOMAIN rooms :
               /\ groupIds[g] = h.gid
               /\ h.sock \in rooms[g]
               /\ h.total = Cardinality(rooms[g])
     /\ \A h \in Pending :
          /\ (/\ StepOf(h) /\ h.kind = "groupMessage" /\ h.pc = "create"
              /\ h.msgId \in Tracked')
             => messageStatus'[h.msgId].totalMembers = h.total
          /\ (/\ StepOf(h) /\ h.kind = "message_delivered" /\ h.pc = "count"
              /\ Live(h.target) /\ ~crashed')
             => emitted' = {Ev("messageDelivered", h.target, h.msgId,
                               Len(Message[h.msgId].deliveredTo),
                               messageStatus[h.msgId].totalMembers, "delivered")}]_vars

\* C24 witness: in the group of alice and bob, alice's session has just been
\* notified that her group message was delivered to 1 of 2, bob alone having
\* acknowledged it.
C24_Witness ==
  \E m \in Stored :
    /\ Message[m].chatType = "group" /\ Message[m].from = "alice"
    /\ Message[m].deliveredTo = <<"bob">>
    /\ rooms["team"] = {userSocketMap["alice"], userSocketMap["bob"]}
    /\ emitted = {Ev("messageDelivered", userSocketMap["alice"], m, 1, 2, "delivered")}

\* C25: a privateMessage of a registered session to an identity that does not
\* resolve to a session sends one error event, to the sender, and nothing else;
\* no handler is suspended, no message identifier is consumed, and the durable
\* store, the tracker and the set of pushed messages are unchanged.
C25_UnregisteredRecipientIsRefused ==
  [][\A s \in Sockets, to \in Names :
       (/\ PrivateMessage(s, to, "hi")
        /\ socketUsername[s] # NoName
        /\ ~Has(userSocketMap, to))
       => /\ emitted' = {ErrorEv(s, "User is not online")}
          /\ Message' = Message
          /\ messageStatus' = messageStatus
          /\ pushed' = pushed
          /\ handlers' = handlers
          /\ nextMsg' = nextMsg]_vars

\* C25 witness: a registered session has just been refused a private message
\* to an identity that no longer resolves.
C25_Witness ==
  \E s \in Sockets, to \in Names :
    /\ Live(s) /\ socketUsername[s] # NoName
    /\ ~Has(userSocketMap, to)
    /\ emitted = {ErrorEv(s, "User is not online")}

\* the step sends one error event, to session s, and changes no state
RefusedStep(s) ==
  /\ \E e \in emitted' : emitted' = {e} /\ e.ev = "error" /\ e.to = s
  /\ registry' = registry
  /\ directory' = directory
  /\ store' = store

\* C26: an addUserToGroup whose group does not exist, whose requester is not
\* in the member set of the group, or whose target is already in it, sends the
\* requester an error and leaves the registry, the group directory and the
\* tracker unchanged.
C26_AddOnlyByMemberOfNonMember ==
  [][\A s \in Sockets, g \in GroupNames \cup {NoGroup}, n \in Names \cup {NoName} :
       (/\ AddUserToGroup(s, g, n)
        /\ \/ ~Has(groupIds, g)
           \/ socketUsername[s] \notin MembersOf(g)
           \/ n \in MembersOf(g))
       => RefusedStep(s)]_vars

\* C27: a removeUserFromGroup whose group exists and whose requester and
\* target are both in its member set takes the target out of the member set
\* and the target's session out of the session set and the reverse index; any
\* other removeUserFromGroup sends the requester an error and changes no state.
C27_RemoveOnlyByMemberOfMember ==
  [][\A s \in Sockets, g \in GroupNames \cup {NoGroup}, n \in Names \cup {NoName} :
       RemoveUserFromGroup(s, g, n) =>
         IF Has(groupIds, g) /\ socketUsername[s] \in MembersOf(g) /\ n \in MembersOf(g)
           THEN /\ n \notin groupMembers'[groupIds[g]]
                /\ \A t \in Sockets :
                     Resolves(n, t) =>
                       /\ t \notin rooms'[g]
                       /\ Has(userRooms', t) => g \notin userRooms'[t]
           ELSE RefusedStep(s)]_vars

\* C28: a joinGroup of a registered session on a name that resolves to an
\* identifier keeps that identifier and mints none, and a joinGroup by an
\* identity already in the member set leaves the member set as it is; unless
\* the process has ended, every identifier with a member set is the one its
\* name resolves to.
C28_JoinReusesIdentifier ==
  [][/\ \A s \in Sockets, g \in GroupNames :
          (JoinGroup(s, g) /\ socketUsername[s] # NoName) =>
            /\ Has(groupIds, g) =>
                 /\ groupIds' = groupIds
                 /\ nextGid' = nextGid
                 /\ DOMAIN groupMembers' = DOMAIN groupMembers
            /\ socketUsername[s] \in MembersOf(g) =>
                 groupMembers' = groupMembers
     /\ ~crashed' =>
          \A k \in DOMAIN groupMembers' :
            \E g \in DOMAIN groupIds' : groupIds'[g] = k]_vars

\* C28 witness: two sessions have joined the same group name, the second one
\* last, and one identifier has been minted.
C28_Witness ==
  \E s \in Sockets, g \in GroupNames :
    /\ Has(rooms, g) /\ Cardinality(rooms[g]) = 2
    /\ Cardinality(MembersOf(g)) = 2
    /\ groupIds[g] = 1 /\ nextGid = 2
    /\ Ev("groupJoined", s, NoMsg, 0, 0, "") \in emitted

\* session s sends an event whose required field is missing or empty
MissingField(s) ==
  \/ \E x \in Texts : PrivateMessage(s, NoName, x)
  \/ \E n \in Names : PrivateMessage(s, n, "")
  \/ \E x \in Texts : GroupMessage(s, NoGroup, x)
  \/ \E g \in GroupNames : GroupMessage(s, g, "")
  \/ \E n \in Names \cup {NoName} : MessageDelivered(s, NoMsg, n)
  \/ \E m \in KnownIds \cup {NoMsg, UnknownMsg} : MessageDelivered(s, m, NoName)
  \/ \E n \in Names \cup {NoName} : MessageRead(s, NoMsg, n)
  \/ \E m \in KnownIds \cup {NoMsg, UnknownMsg} : MessageRead(s, m, NoName)

\* C29: a privateMessage, groupMessage, message_delivered or message_read of a
\* registered session with a required field missing or empty sends one error
\* event, to that session, and leaves the registry, the group directory, the
\* tracker and the durable store unchanged.
C29_MissingFieldIsReported ==
  [][\A s \in Sockets :
       (MissingField(s) /\ socketUsername[s] # NoName) => RefusedStep(s)]_vars

\* a persistence call of the suspended handler h fails in this step, and the
\* step is not one that its success would have produced as well
PersistenceFailed(h) ==
  \/ PrivateMessageSaved(h, FALSE) /\ ~PrivateMessageSaved(h, TRUE)
  \/ GroupMessageSaved(h, FALSE) /\ ~GroupMessageSaved(h, TRUE)
  \/ DeliveredFound(h, FALSE) /\ ~DeliveredFound(h, TRUE)
  \/ DeliveredUpdated(h, FALSE) /\ ~DeliveredUpdated(h, TRUE)
  \/ DeliveredCounted(h, FALSE) /\ ~DeliveredCounted(h, TRUE)
  \/ ReadFound(h, FALSE) /\ ~ReadFound(h, TRUE)
  \/ ReadUpdated(h, FALSE) /\ ~ReadUpdated(h, TRUE)
  \/ ReadRecounted(h, FALSE) /\ ~ReadRecounted(h, TRUE)
  \/ ReadStatusSet(h, FALSE) /\ ~ReadStatusSet(h, TRUE)
  \/ ReadCounted(h, FALSE) /\ ~ReadCounted(h, TRUE)

\* C30: a step in which a persistence call of a privateMessage, groupMessage,
\* message_delivered or message_read handler fails sends an error event, all
\* sessions being open.
C30_PersistenceFailureIsReported ==
  [][\A h \in Pending :
       PersistenceFailed(h) => \E e \in emitted' : e.ev = "error"]_vars

\* the identities in a durable array
Elements(arr) == {arr[k] : k \in 1..Len(arr)}

\* no message_delivered or message_read handler is suspended
NoAckPending ==
  \A h \in Pending : h.kind \notin {"message_delivered", "message_read"}

\* C31: whenever no acknowledgment handler is suspended, every tracked message
\* has a durable record with the same status, the same delivered-to
\* identities and the same read-by identities as its tracker entry.
C31_TrackerEqualsDurableRecord ==
  NoAckPending =>
    \A m \in Tracked :
      /\ m \in Stored
      /\ messageStatus[m].status = Message[m].status
      /\ messageStatus[m].deliveredTo = Elements(Message[m].deliveredTo)
      /\ messageStatus[m].readBy = Elements(Message[m].readBy)

\* the suspended handler h of the given kind has passed validation for a group
\* message and completes its durable write in this step
GroupWrite(h, kind) ==
  /\ StepOf(h) /\ ~crashed'
  /\ h.kind = kind /\ h.pc = "update" /\ h.chatType = "group"
  /\ h.msgId \in Stored /\ h.msgId \in Tracked

\* the suspended read handler h makes its in-memory update in this step
GroupReadTracked(h) ==
  /\ StepOf(h) /\ ~crashed'
  /\ h.kind = "message_read" /\ h.chatType = "group"
  /\ h.msgId \in Stored /\ h.msgId \in Tracked
  /\ \/ h.pc = "setRead"
     \/ h.pc = "recount" /\ ~AllRead(h.msgId)

\* C32: the durable write of a validated group acknowledgment adds its actor
\* to the set and keeps every identity already there, and so does its
\* in-memory update, whatever other acknowledgment is in flight; and when two
\* acknowledgments were sent, none is in flight any more and both members are
\* in the delivered-to (read-by) set, tracker and durable record hold both and
\* have status delivered (read), as the two acknowledgments in sequence yield.
C32_ConcurrentAcksAreNotLost ==
  [][/\ \A h \in Pending :
          /\ GroupWrite(h, "message_delivered")
             => /\ Elements(Message'[h.msgId].deliveredTo)
                     = Elements(Message[h.msgId].deliveredTo) \cup {h.user}
                /\ messageStatus'[h.msgId].deliveredTo
                     = messageStatus[h.msgId].deliveredTo \cup {h.user}
          /\ GroupWrite(h, "message_read")
             => Elements(Message'[h.msgId].readBy)
                  = Elements(Message[h.msgId].readBy) \cup {h.user}
          /\ GroupReadTracked(h)
             => messageStatus'[h.msgId].readBy
                  = messageStatus[h.msgId].readBy \cup {h.user}
     /\ (NoAckPending' /\ acks' = 2) =>
          \A m \in Tracked' :
            /\ Elements(Message'[m].deliveredTo) = Names
               => /\ messageStatus'[m].deliveredTo = Names
                  /\ Message'[m].status = "delivered"
                  /\ messageStatus'[m].status = "delivered"
            /\ Elements(Message'[m].readBy) = Names
               => /\ messageStatus'[m].readBy = Names
                  /\ Message'[m].status = "read"
                  /\ messageStatus'[m].status = "read"]_vars

\* C32 witness: two acknowledgments of the same kind for the same group
\* message, by two different members, have both passed validation and neither
\* durable write has completed.
C32_Witness ==
  \E h1, h2 \in Pending :
    /\ h1.user # h2.user /\ h1.msgId = h2.msgId /\ h1.kind = h2.kind
    /\ h1.kind \in {"message_delivered", "message_read"}
    /\ h1.pc = "update" /\ h2.pc = "update"
    /\ h1.chatType = "group" /\ h2.chatType = "group"
    /\ Message[h1.msgId].deliveredTo = <<>> /\ Message[h1.msgId].readBy = <<>>

\* the stored group messages
GroupMsgIds == {m \in Stored : Message[m].chatType = "group"}

\* C33: no step removes an identity from the delivered-to set or from the
\* read-by set of a group message, in the durable record or in the tracker.
C33_AckSetsOnlyGrow ==
  [][\A m \in GroupMsgIds :
       /\ m \in Stored'
       /\ Elements(Message[m].deliveredTo) \subseteq Elements(Message'[m].deliveredTo)
       /\ Elements(Message[m].readBy) \subseteq Elements(Message'[m].readBy)
       /\ m \in Tracked =>
            /\ m \in Tracked'
            /\ messageStatus[m].deliveredTo \subseteq messageStatus'[m].deliveredTo
            /\ messageStatus[m].readBy \subseteq messageStatus'[m].readBy]_vars

\* C33 witness: an identity is in the delivered-to and in the read-by set of a
\* group message, in the durable record and in the tracker, and is no longer
\* in the member set of the group.
C33_Witness ==
  \E m \in GroupMsgIds, n \in Names :
    /\ m \in Tracked
    /\ n \in Elements(Message[m].deliveredTo) /\ n \in Elements(Message[m].readBy)
    /\ n \in messageStatus[m].deliveredTo /\ n \in messageStatus[m].readBy
    /\ \A k \in DOMAIN groupMembers : n \notin groupMembers[k]

\* C34: whenever no handler is suspended, a group message has status
\* delivered or read exactly when its delivered-to set is not empty, in the
\* durable record and in the tracker.
C34_DeliveredIffDeliveredToNonEmpty ==
  Quiet =>
    \A m \in GroupMsgIds :
      /\ Rank(Message[m].status) >= Rank("delivered")
           <=> Message[m].deliveredTo # <<>>
      /\ m \in Tracked =>
           (Rank(messageStatus[m].status) >= Rank("delivered")
              <=> messageStatus[m].deliveredTo # {})

\* C35: the read-by set of a group message never has more identities than the
\* total-recipient-count recorded when the message was sent, in the durable
\* record and in the tracker.
C35_ReadByWithinRecordedTotal ==
  \A m \in GroupMsgIds :
    m \in Tracked =>
      /\ Len(Message[m].readBy) <= messageStatus[m].totalMembers
      /\ Cardinality(messageStatus[m].readBy) <= messageStatus[m].totalMembers

\* the sessions the step sends a groupMessage event to
PushedTo == {e.to : e \in {x \in emitted' : x.ev = "groupMessage"}}

\* C36: when the durable append of a group message completes, the message is
\* pushed to as many sessions as its recorded total-recipient-count says, and
\* they are the sessions of the group.
C36_FanOutMatchesRecordedTotal ==
  [][\A h \in Pending :
       (/\ StepOf(h) /\ h.kind = "groupMessage" /\ h.pc = "create"
        /\ h.msgId \in Tracked')
       => /\ Cardinality(PushedTo) = messageStatus'[h.msgId].totalMembers
          /\ \A g \in DOMAIN rooms : groupIds[g] = h.gid => PushedTo = rooms[g]]_vars

\* C37: while the process runs, the identity member set of every group is the
\* set of identities of the sessions in its session set.
C37_MemberSetsAgree ==
  ~crashed =>
    \A g \in DOMAIN rooms :
      MembersOf(g) = {socketUsername[s] : s \in rooms[g]}

\* a delivery acknowledgment of private message m, sent by its recorded
\* recipient and naming its recorded sender, is being handled
RecipientAckPending(m) ==
  /\ m \in PrivateIds
  /\ \E h \in Pending :
       /\ h.kind = "message_delivered" /\ h.msgId = m
       /\ h.user = Message[m].to /\ h.from = Message[m].from

\* the last step sent the sender's session messageDelivered for private message m
SenderNotified(m) ==
  /\ m \in PrivateIds
  /\ Has(userSocketMap, Message[m].from)
  /\ Ev("messageDelivered", userSocketMap[Message[m].from], m, 0, 0, "delivered") \in emitted

\* C38: where every pending persistence call eventually returns its result
\* and the sender stays registered, a delivery acknowledgment of a private
\* message by its recorded recipient is eventually followed by a
\* messageDelivered notification to the sender's session, and again and again
\* no acknowledgment handler is left suspended. (A call that fails ends its
\* handler without a notification: C6, C30.)
C38_AckLeadsToNotification ==
  /\ \A m \in MsgIds : RecipientAckPending(m) ~> SenderNotified(m)
  /\ []<>NoAckPending

\* C38 witness: the sender's session has just been notified of the delivery of
\* a private message, and no acknowledgment handler is suspended.
C38_Witness ==
  \E m \in PrivateIds :
    /\ SenderNotified(m) /\ NoAckPending
    /\ Message[m].status = "delivered" /\ Message[m].deliveredAt

\* C39: a group name has a session set exactly when it has an identifier,
\* that identifier has an identity member set, and every identifier with a
\* member set is the one some name resolves to.
C39_GroupMapsHaveCorrespondingKeys ==
  /\ DOMAIN rooms = DOMAIN groupIds
  /\ \A g \in DOMAIN groupIds : Has(groupMembers, groupIds[g])
  /\ \A k \in DOMAIN groupMembers : \E g \in DOMAIN groupIds : groupIds[g] = k

\* C39 witness: a group was created and then deleted with its last session;
\* none of the three maps has an entry for it.
C39_Witness ==
  /\ nextGid > 1
  /\ \E s \in Sockets : sockState[s] = "closed"
  /\ DOMAIN rooms = {} /\ DOMAIN groupIds = {} /\ DOMAIN groupMembers = {}

====
